---- MODULE Spec2Model ----
(***************************************************************************)
(* Model of src-tauri/src/lib.rs: the recording controller                 *)
(* (start_recording, stop_recording, is_recording), the capture session    *)
(* thread (record_audio) and the audio callback it installs.               *)
(*                                                                         *)
(* Every Mutex of the source is a lock variable holding its owner, every   *)
(* thread has a program counter, and one action is one step of a thread    *)
(* between two points where another thread can observe it.                 *)
(*                                                                         *)
(* The WAV writer is the hound crate's: create() truncates the file and    *)
(* writes a header declaring no samples, write_sample() puts one sample at *)
(* the writer's own position, finalize() patches the header with the       *)
(* number of samples that writer wrote, and dropping a writer that was     *)
(* never finalized patches the header the same way.                        *)
(***************************************************************************)
EXTENDS Integers, Sequences, FiniteSets

\* ------------------------------------------------------------- bounds
NumCallers == 2
MaxCalls == 4
MaxSessions == 2
MaxSamples == 2
MaxBuf == 2
FBits == 3

Callers == 1..NumCallers
Sessions == 1..MaxSessions

VARIABLES
    is_recording,   \* RecordingState.is_recording: the bool inside the Mutex
    output_path,    \* RecordingState.output_path: the Option<String> inside the Mutex
    lockRec,        \* owner of the is_recording Mutex
    lockPath,       \* owner of the output_path Mutex
    lockW,          \* per session: owner of the writer Mutex
    cpc,            \* per caller: position inside the command it runs
    spc,            \* per session: position of the thread running record_audio
    cbpc,           \* per session: position of the audio callback
    cbrem,          \* per session: samples of the current buffer not yet written
    wstate,         \* per session: the writer cell (none, open, taken, dropped)
    cnt,            \* per session: samples its writer has written
    file,           \* the file at the output path
    log,            \* outcomes of start_recording/stop_recording, in return order
    born,           \* per session: index in log of the start that spawned it
    ncalls,         \* commands invoked so far
    conv            \* the sample given to the converter of a callback, and its result

vars == <<is_recording, output_path, lockRec, lockPath, lockW, cpc, spc, cbpc,
          cbrem, wstate, cnt, file, log, born, ncalls, conv>>

\* ------------------------------------------------------------- values
NoHolder == <<"none", 0>>
CallerT(c) == <<"caller", c>>
SessT(s) == <<"session", s>>
CbT(s) == <<"callback", s>>

NoPath == "None"
RecordingWav == "recording.wav"

NoFile == [creator |-> 0, hdr |-> 0, hdrBy |-> 0, data |-> <<>>]

Ev(op, res) == [op |-> op, res |-> res]

NoSample == [fmt |-> "none", raw |-> 0, out |-> 0, done |-> FALSE]

\* ------------------------------------------------------------- Default
Init ==
    /\ is_recording = FALSE
    /\ output_path = NoPath
    /\ lockRec = NoHolder
    /\ lockPath = NoHolder
    /\ lockW = [s \in Sessions |-> NoHolder]
    /\ cpc = [c \in Callers |-> "idle"]
    /\ spc = [s \in Sessions |-> "none"]
    /\ cbpc = [s \in Sessions |-> "idle"]
    /\ cbrem = [s \in Sessions |-> 0]
    /\ wstate = [s \in Sessions |-> "none"]
    /\ cnt = [s \in Sessions |-> 0]
    /\ file = NoFile
    /\ log = <<>>
    /\ born = [s \in Sessions |-> 0]
    /\ ncalls = 0
    /\ conv = NoSample

Spawned == {s \in Sessions : spc[s] # "none"}

\* ------------------------------------------------------------- hound writer
\* WavWriter::create: truncate the file, header declares no samples
Create(s) == [creator |-> s, hdr |-> 0, hdrBy |-> 0, data |-> <<>>]

\* write_sample by the writer of session s, whose position is after its cnt[s] samples
WriteSample(f, s, pos) ==
    IF pos <= Len(f.data)
    THEN [f EXCEPT !.data = [f.data EXCEPT ![pos] = s]]
    ELSE [f EXCEPT !.data = f.data \o [i \in 1..(pos - Len(f.data) - 1) |-> 0] \o <<s>>]

\* finalize (and drop of an unfinalized writer): the header gets the writer's own count
PatchHeader(f, s, n) == [f EXCEPT !.hdr = n, !.hdrBy = s]

\* ------------------------------------------------------------- start_recording
\* the check of line 33 left out
AlreadyRecording_Never(rec) == FALSE

\* `if *is_recording` (line 33)
AlreadyRecording(rec) == rec

\* line 31: lock the flag; the guard is a local of the function and lives to its end
\* (MaxCalls bounds the commands invoked, MaxSessions the threads spawned)
StartLock(c) ==
    /\ cpc[c] = "idle"
    /\ ncalls < MaxCalls
    /\ Cardinality(Spawned) < MaxSessions
    /\ lockRec = NoHolder
    /\ lockRec' = CallerT(c)
    /\ cpc' = [cpc EXCEPT ![c] = "s_check"]
    /\ ncalls' = ncalls + 1
    /\ UNCHANGED <<is_recording, output_path, lockPath, lockW, spc, cbpc, cbrem,
                   wstate, cnt, file, log, born>>
    /\ UNCHANGED conv

\* lines 33-37: reject when the flag is set, else set it
StartCheck(c) ==
    /\ cpc[c] = "s_check"
    /\ IF AlreadyRecording(is_recording)
       THEN /\ log' = Append(log, Ev("start", "already"))
            /\ lockRec' = NoHolder
            /\ cpc' = [cpc EXCEPT ![c] = "idle"]
            /\ UNCHANGED is_recording
       ELSE /\ is_recording' = TRUE
            /\ cpc' = [cpc EXCEPT ![c] = "s_dir"]
            /\ UNCHANGED <<log, lockRec>>
    /\ UNCHANGED <<output_path, lockPath, lockW, spc, cbpc, cbrem, wstate, cnt,
                   file, born, ncalls>>
    /\ UNCHANGED conv

\* what the flag holds when start_recording returns a path error (lines 41, 45):
\* the early returns only drop the guard
FlagOnPathError(rec) == rec

\* lines 40-46: app_data_dir() and create_dir_all(), either of which can fail
StartDir(c) ==
    /\ cpc[c] = "s_dir"
    /\ \E r \in {"ok", "no_app_data_dir", "create_dir_failed"} :
         IF r = "ok"
         THEN /\ cpc' = [cpc EXCEPT ![c] = "s_path"]
              /\ UNCHANGED <<log, lockRec, is_recording>>
         ELSE /\ log' = Append(log, Ev("start", "path_error"))
              /\ is_recording' = FlagOnPathError(is_recording)
              /\ lockRec' = NoHolder
              /\ cpc' = [cpc EXCEPT ![c] = "idle"]
    /\ UNCHANGED <<output_path, lockPath, lockW, spc, cbpc, cbrem, wstate, cnt,
                   file, born, ncalls>>
    /\ UNCHANGED conv

\* lines 48-51: store the path under the output_path lock (a temporary guard)
StartSetPath(c) ==
    /\ cpc[c] = "s_path"
    /\ lockPath = NoHolder
    /\ output_path' = RecordingWav
    /\ cpc' = [cpc EXCEPT ![c] = "s_spawn"]
    /\ UNCHANGED <<is_recording, lockRec, lockPath, lockW, spc, cbpc, cbrem,
                   wstate, cnt, file, log, born, ncalls>>
    /\ UNCHANGED conv

\* lines 53-63: spawn the session thread, return Ok(path), drop the flag guard
StartSpawn(c) ==
    /\ cpc[c] = "s_spawn"
    /\ LET s == Cardinality(Spawned) + 1 IN
         /\ spc' = [spc EXCEPT ![s] = "device"]
         /\ born' = [born EXCEPT ![s] = Len(log) + 1]
    /\ log' = Append(log, Ev("start", "ok"))
    /\ lockRec' = NoHolder
    /\ cpc' = [cpc EXCEPT ![c] = "idle"]
    /\ UNCHANGED <<is_recording, output_path, lockPath, lockW, cbpc, cbrem,
                   wstate, cnt, file, ncalls>>
    /\ UNCHANGED conv

\* ------------------------------------------------------------- stop_recording
\* the check of line 70 left out
NotRecording_Never(rec) == FALSE

\* `if !*is_recording` (line 70)
NotRecording(rec) == ~rec

\* the flag guard dropped before the sleep
FlagGuardDroppedAfterClear(c) == NoHolder

\* owner of the flag lock from line 74 on: the guard of line 68 is still alive
\* during the sleep of line 77 and the read of lines 79-83
FlagGuardAfterClear(c) == CallerT(c)

\* line 68
StopLock(c) ==
    /\ cpc[c] = "idle"
    /\ ncalls < MaxCalls
    /\ lockRec = NoHolder
    /\ lockRec' = CallerT(c)
    /\ cpc' = [cpc EXCEPT ![c] = "p_check"]
    /\ ncalls' = ncalls + 1
    /\ UNCHANGED <<is_recording, output_path, lockPath, lockW, spc, cbpc, cbrem,
                   wstate, cnt, file, log, born>>
    /\ UNCHANGED conv

\* lines 70-74: reject when the flag is clear, else clear it
StopCheck(c) ==
    /\ cpc[c] = "p_check"
    /\ IF NotRecording(is_recording)
       THEN /\ log' = Append(log, Ev("stop", "not_recording"))
            /\ lockRec' = NoHolder
            /\ cpc' = [cpc EXCEPT ![c] = "idle"]
            /\ UNCHANGED is_recording
       ELSE /\ is_recording' = FALSE
            /\ lockRec' = FlagGuardAfterClear(c)
            /\ cpc' = [cpc EXCEPT ![c] = "p_sleep"]
            /\ UNCHANGED log
    /\ UNCHANGED <<output_path, lockPath, lockW, spc, cbpc, cbrem, wstate, cnt,
                   file, born, ncalls>>
    /\ UNCHANGED conv

\* line 77: thread::sleep(100 ms)
StopSleep(c) ==
    /\ cpc[c] = "p_sleep"
    /\ cpc' = [cpc EXCEPT ![c] = "p_path"]
    /\ UNCHANGED <<is_recording, output_path, lockRec, lockPath, lockW, spc,
                   cbpc, cbrem, wstate, cnt, file, log, born, ncalls>>
    /\ UNCHANGED conv

\* line 79: lock the output path
StopLockPath(c) ==
    /\ cpc[c] = "p_path"
    /\ lockPath = NoHolder
    /\ lockPath' = CallerT(c)
    /\ cpc' = [cpc EXCEPT ![c] = "p_read"]
    /\ UNCHANGED <<is_recording, output_path, lockRec, lockW, spc, cbpc, cbrem,
                   wstate, cnt, file, log, born, ncalls>>
    /\ UNCHANGED conv

\* lines 80-84: return the path or "No recording path found"; both guards drop
StopRead(c) ==
    /\ cpc[c] = "p_read"
    /\ log' = Append(log, Ev("stop", IF output_path # NoPath THEN "ok" ELSE "no_path"))
    /\ lockPath' = NoHolder
    /\ lockRec' = IF lockRec = CallerT(c) THEN NoHolder ELSE lockRec
    /\ cpc' = [cpc EXCEPT ![c] = "idle"]
    /\ UNCHANGED <<is_recording, output_path, lockW, spc, cbpc, cbrem, wstate,
                   cnt, file, born, ncalls>>
    /\ UNCHANGED conv

\* ------------------------------------------------------------- is_recording
\* line 88
IsRecLock(c) ==
    /\ cpc[c] = "idle"
    /\ ncalls < MaxCalls
    /\ lockRec = NoHolder
    /\ lockRec' = CallerT(c)
    /\ cpc' = [cpc EXCEPT ![c] = "q_read"]
    /\ ncalls' = ncalls + 1
    /\ UNCHANGED <<is_recording, output_path, lockPath, lockW, spc, cbpc, cbrem,
                   wstate, cnt, file, log, born>>
    /\ UNCHANGED conv

\* line 89: Ok(*is_recording), drop the guard
IsRecRead(c) ==
    /\ cpc[c] = "q_read"
    /\ lockRec' = NoHolder
    /\ cpc' = [cpc EXCEPT ![c] = "idle"]
    /\ UNCHANGED <<is_recording, output_path, lockPath, lockW, spc, cbpc, cbrem,
                   wstate, cnt, file, log, born, ncalls>>
    /\ UNCHANGED conv

\* ------------------------------------------------------------- record_audio: setup
\* the flag cleared when the setup fails
FlagOnSetupError_Cleared(rec) == FALSE

\* what the flag holds after record_audio returns an error (lines 94, 96): the
\* `?` returns touch no shared state, and the caller of line 58 only prints
FlagOnSetupError(rec) == rec

\* lines 93-98: default_input_device() or "No input device available", then
\* default_input_config()?
SetupDevice(s) ==
    /\ spc[s] = "device"
    /\ \E r \in {"ok", "no_input_device", "config_error"} :
         /\ spc' = [spc EXCEPT ![s] = IF r = "ok" THEN "create" ELSE "failed"]
         /\ is_recording' = IF r = "ok" THEN is_recording
                                       ELSE FlagOnSetupError(is_recording)
    /\ UNCHANGED <<output_path, lockRec, lockPath, lockW, cpc,
                   cbpc, cbrem, wstate, cnt, file, log, born, ncalls>>
    /\ UNCHANGED conv

\* lines 100-108: WavWriter::create(output_path, spec)?, wrapped in Arc<Mutex<Some>>
CreateWriter(s) ==
    /\ spc[s] = "create"
    /\ \E ok \in BOOLEAN :
         IF ok
         THEN /\ file' = Create(s)
              /\ wstate' = [wstate EXCEPT ![s] = "open"]
              /\ spc' = [spc EXCEPT ![s] = "build"]
         ELSE /\ spc' = [spc EXCEPT ![s] = "failed"]
              /\ UNCHANGED <<file, wstate>>
    /\ UNCHANGED <<is_recording, output_path, lockRec, lockPath, lockW, cpc,
                   cbpc, cbrem, cnt, log, born, ncalls>>
    /\ UNCHANGED conv

\* an error return after the writer exists drops the writer, whose Drop patches
\* the header
DropWriter(s) ==
    /\ wstate' = [wstate EXCEPT ![s] = "dropped"]
    /\ file' = PatchHeader(file, s, cnt[s])

\* lines 110-185: build_input_stream()? for F32, I16, U16 (any other format is
\* "Unsupported sample format"), then stream.play()?
BuildStream(s) ==
    /\ spc[s] = "build"
    /\ \E r \in {"F32", "I16", "U16", "unsupported", "build_error", "play_error"} :
         IF r \in {"F32", "I16", "U16"}
         THEN /\ spc' = [spc EXCEPT ![s] = "loop"]
              /\ UNCHANGED <<file, wstate>>
         ELSE /\ spc' = [spc EXCEPT ![s] = "failed"]
              /\ DropWriter(s)
    /\ UNCHANGED <<is_recording, output_path, lockRec, lockPath, lockW, cpc,
                   cbpc, cbrem, cnt, log, born, ncalls>>
    /\ UNCHANGED conv

\* ------------------------------------------------------------- record_audio: loop
\* lines 189-190: sleep 100 ms, then lock the flag
PollLock(s) ==
    /\ spc[s] = "loop"
    /\ lockRec = NoHolder
    /\ lockRec' = SessT(s)
    /\ spc' = [spc EXCEPT ![s] = "check"]
    /\ UNCHANGED <<is_recording, output_path, lockPath, lockW, cpc, cbpc, cbrem,
                   wstate, cnt, file, log, born, ncalls>>
    /\ UNCHANGED conv

\* the loop condition inverted
LoopBreaks_Inverted(rec) == rec

\* `if !*recording { break; }` (line 191)
LoopBreaks(rec) == ~rec

\* the guard of the poll kept beyond the loop body
FlagGuardKeptAfterPoll(s) == SessT(s)

\* owner of the flag lock after lines 191-194: `recording` is a local of the loop
\* body and drops at its end, on `break` too
FlagGuardAfterPoll(s) == NoHolder

\* lines 191-194: leave the loop when the flag is clear; the guard drops either way
PollCheck(s) ==
    /\ spc[s] = "check"
    /\ spc' = [spc EXCEPT ![s] = IF LoopBreaks(is_recording) THEN "finlock" ELSE "loop"]
    /\ lockRec' = FlagGuardAfterPoll(s)
    /\ UNCHANGED <<is_recording, output_path, lockPath, lockW, cpc, cbpc, cbrem,
                   wstate, cnt, file, log, born, ncalls>>
    /\ UNCHANGED conv

\* line 197: lock the writer
FinLock(s) ==
    /\ spc[s] = "finlock"
    /\ lockW[s] = NoHolder
    /\ lockW' = [lockW EXCEPT ![s] = SessT(s)]
    /\ spc' = [spc EXCEPT ![s] = "fin"]
    /\ UNCHANGED <<is_recording, output_path, lockRec, lockPath, cpc, cbpc,
                   cbrem, wstate, cnt, file, log, born, ncalls>>
    /\ UNCHANGED conv

\* lines 198-201: take() the writer and finalize it; the writer guard drops
Finalize(s) ==
    /\ spc[s] = "fin"
    /\ IF wstate[s] = "open"
       THEN /\ wstate' = [wstate EXCEPT ![s] = "taken"]
            /\ file' = PatchHeader(file, s, cnt[s])
       ELSE UNCHANGED <<wstate, file>>
    /\ lockW' = [lockW EXCEPT ![s] = NoHolder]
    /\ spc' = [spc EXCEPT ![s] = "exit"]
    /\ UNCHANGED <<is_recording, output_path, lockRec, lockPath, cpc, cbpc,
                   cbrem, cnt, log, born, ncalls>>
    /\ UNCHANGED conv

\* lines 203-204: return; `stream` is dropped here, after the finalize, once no
\* callback is running
Exit(s) ==
    /\ spc[s] = "exit"
    /\ cbpc[s] = "idle"
    /\ spc' = [spc EXCEPT ![s] = "done"]
    /\ UNCHANGED <<is_recording, output_path, lockRec, lockPath, lockW, cpc,
                   cbpc, cbrem, wstate, cnt, file, log, born, ncalls>>
    /\ UNCHANGED conv

\* ------------------------------------------------------------- the audio callback
\* the stream delivers buffers from play() until `stream` is dropped
StreamLive(s) == spc[s] \in {"loop", "check", "finlock", "fin", "exit"}

\* line 117 (141, 165): a buffer of n samples arrives; lock the flag
\* (the stream delivers buffers of MaxBuf samples; MaxSamples bounds what one
\* writer is given in all)
CbLock(s) ==
    /\ StreamLive(s)
    /\ cbpc[s] = "idle"
    /\ lockRec = NoHolder
    /\ \E n \in {MaxBuf} :
         /\ cnt[s] + n <= MaxSamples
         /\ cbrem' = [cbrem EXCEPT ![s] = n]
    /\ lockRec' = CbT(s)
    /\ cbpc' = [cbpc EXCEPT ![s] = "c_check"]
    /\ UNCHANGED <<is_recording, output_path, lockPath, lockW, cpc, spc, wstate,
                   cnt, file, log, born, ncalls>>
    /\ UNCHANGED conv

\* the flag test of the callback left out
CallbackSkips_Never(rec) == FALSE

\* `if !*recording { return; }` (lines 118, 142, 166)
CallbackSkips(rec) == ~rec

\* lines 118-120: return without writing when the flag is clear
CbCheck(s) ==
    /\ cbpc[s] = "c_check"
    /\ IF CallbackSkips(is_recording)
       THEN /\ cbpc' = [cbpc EXCEPT ![s] = "idle"]
            /\ cbrem' = [cbrem EXCEPT ![s] = 0]
            /\ lockRec' = NoHolder
       ELSE /\ cbpc' = [cbpc EXCEPT ![s] = "c_wlock"]
            /\ UNCHANGED <<cbrem, lockRec>>
    /\ UNCHANGED <<is_recording, output_path, lockPath, lockW, cpc, spc, wstate,
                   cnt, file, log, born, ncalls>>
    /\ UNCHANGED conv

\* line 122: lock the writer, the flag guard still held
CbLockW(s) ==
    /\ cbpc[s] = "c_wlock"
    /\ lockW[s] = NoHolder
    /\ lockW' = [lockW EXCEPT ![s] = CbT(s)]
    /\ cbpc' = [cbpc EXCEPT ![s] = "c_write"]
    /\ UNCHANGED <<is_recording, output_path, lockRec, lockPath, cpc, spc,
                   cbrem, wstate, cnt, file, log, born, ncalls>>
    /\ UNCHANGED conv

\* the test for a writer left out
HasWriter_Always(w) == TRUE

\* `if let Some(ref mut writer) = writer_guard.as_mut()` (lines 123, 147, 170)
HasWriter(w) == w = "open"

\* the writer guard taken and dropped for each sample
WriterGuardDroppedPerSample(s) == NoHolder

\* `writer_guard` (line 122) lives to the end of its `if let` block (line 129),
\* around the whole `for` loop
WriterGuardInLoop(s) == CbT(s)

\* lines 123-128: when the cell holds a writer, write_sample() for the next
\* sample of the buffer; when it is None, nothing
CbWrite(s) ==
    /\ cbpc[s] = "c_write"
    /\ IF HasWriter(wstate[s]) /\ cbrem[s] > 0
       THEN /\ file' = WriteSample(file, s, cnt[s] + 1)
            /\ cnt' = [cnt EXCEPT ![s] = cnt[s] + 1]
            /\ cbrem' = [cbrem EXCEPT ![s] = cbrem[s] - 1]
            /\ cbpc' = [cbpc EXCEPT ![s] = IF cbrem[s] = 1 THEN "c_ret" ELSE "c_write"]
       ELSE /\ cbrem' = [cbrem EXCEPT ![s] = 0]
            /\ cbpc' = [cbpc EXCEPT ![s] = "c_ret"]
            /\ UNCHANGED <<file, cnt>>
    /\ lockW' = [lockW EXCEPT ![s] = WriterGuardInLoop(s)]
    /\ UNCHANGED <<is_recording, output_path, lockRec, lockPath, cpc, spc,
                   wstate, log, born, ncalls>>
    /\ UNCHANGED conv

\* lines 129-130: the closure returns; the writer guard and the flag guard drop
CbReturn(s) ==
    /\ cbpc[s] = "c_ret"
    /\ lockW' = [lockW EXCEPT ![s] = NoHolder]
    /\ lockRec' = NoHolder
    /\ cbpc' = [cbpc EXCEPT ![s] = "idle"]
    /\ UNCHANGED <<is_recording, output_path, lockPath, cpc, spc, cbrem, wstate,
                   cnt, file, log, born, ncalls>>
    /\ UNCHANGED conv

\* ------------------------------------------------------------- specification
CallerInvoke(c) == StartLock(c) \/ StopLock(c) \/ IsRecLock(c)

CallerContinue(c) ==
    \/ StartCheck(c) \/ StartDir(c) \/ StartSetPath(c) \/ StartSpawn(c)
    \/ StopCheck(c) \/ StopSleep(c) \/ StopLockPath(c) \/ StopRead(c)
    \/ IsRecRead(c)

SessionStep(s) ==
    \/ SetupDevice(s) \/ CreateWriter(s) \/ BuildStream(s)
    \/ PollLock(s) \/ PollCheck(s) \/ FinLock(s) \/ Finalize(s)
    \/ Exit(s)

CallbackContinue(s) == CbCheck(s) \/ CbLockW(s) \/ CbWrite(s) \/ CbReturn(s)

Next ==
    \/ \E c \in Callers : CallerInvoke(c) \/ CallerContinue(c)
    \/ \E s \in Sessions : SessionStep(s) \/ CbLock(s) \/ CallbackContinue(s)

Spec == Init /\ [][Next]_vars

\* Fair scheduling.  A command that has taken the flag lock is never blocked, and
\* a callback past its check waits only for the one finalize of its session:
\* weak fairness makes them run.  The session thread waits for locks that the
\* callbacks and the commands take again and again: strong fairness gives it
\* the lock it can infinitely often take.  Nothing obliges a caller to invoke a
\* command or the device to deliver a buffer.
FairSpec ==
    /\ Spec
    /\ \A c \in Callers : WF_vars(CallerContinue(c))
    /\ \A s \in Sessions : SF_vars(SessionStep(s))
    /\ \A s \in Sessions : WF_vars(CallbackContinue(s))

\* ------------------------------------------------------------- history
IsClearingStop(e) == e.op = "stop" /\ e.res \in {"ok", "no_path"}

\* index of the last stop_recording that cleared the flag, 0 when there is none
LastStop ==
    LET I == {i \in DOMAIN log : IsClearingStop(log[i])}
    IN  IF I = {} THEN 0 ELSE CHOOSE i \in I : \A j \in I : j <= i

\* the calls that returned since the flag was last cleared (or since the beginning)
EpochIdx == (LastStop + 1)..Len(log)
EpochStarts(res) == {i \in EpochIdx : log[i] = Ev("start", res)}
EpochAllStarts == {i \in EpochIdx : log[i].op = "start"}

HeldByCaller == lockRec[1] = "caller"
StartPcs == {"s_check", "s_dir", "s_path", "s_spawn"}
StopHoldingPcs == {"p_sleep", "p_path", "p_read"}

\* a session is live from its spawn until its writer has been finalized
Live(s) == spc[s] \in {"device", "create", "build", "loop",
                       "check", "finlock", "fin"}

\* ------------------------------------------------------------- C1
\* C1: from Idle, with path resolution succeeding and no stop_recording in
\* between, any number n >= 1 of start_recording calls that have returned (two
\* in particular) gave exactly one success and n - 1 "Already recording"
\* failures, and exactly one capture thread was spawned.
C1_OneStartWins ==
    EpochStarts("path_error") = {} =>
        /\ Cardinality(EpochStarts("ok")) <= 1
        /\ EpochAllStarts # {} => Cardinality(EpochStarts("ok")) = 1
        /\ Cardinality(EpochStarts("already")) =
               Cardinality(EpochAllStarts) - Cardinality(EpochStarts("ok"))
        /\ Cardinality({s \in Sessions : born[s] > LastStop}) =
               Cardinality(EpochStarts("ok"))

\* two start_recording calls have returned with no stop between them
C1_TwoStartsReturned ==
    /\ EpochStarts("path_error") = {}
    /\ Cardinality(EpochAllStarts) >= 2
    /\ EpochStarts("already") # {}

\* ------------------------------------------------------------- C2
\* C2: at most one capture session is live, and at most one writer is open on
\* the output path, in every reachable state.
C2_SingleActiveRecording ==
    /\ Cardinality({s \in Sessions : Live(s)}) <= 1
    /\ Cardinality({s \in Sessions : wstate[s] = "open"}) <= 1

\* ------------------------------------------------------------- C3
\* C3: when the setup of a capture session fails, the start_recording that
\* requested it has returned an error, and the flag is clear once that call has
\* returned and no other call has followed.
C3_SetupFailureReported ==
    \A s \in Sessions :
        spc[s] = "failed" =>
            /\ log[born[s]].res # "ok"
            /\ (born[s] = Len(log) /\ ~HeldByCaller) => ~is_recording

\* ------------------------------------------------------------- C4
\* C4: after a start_recording that returned a path error the flag is clear; the
\* flag is set, outside a running command, only after a start_recording that
\* returned success and before the stop_recording that follows it.
C4_PathErrorLeavesIdle ==
    ~HeldByCaller =>
        /\ (Len(log) > 0 /\ log[Len(log)] = Ev("start", "path_error")) => ~is_recording
        /\ is_recording => EpochStarts("ok") # {}

\* ------------------------------------------------------------- C5
Rejected(c) ==
    \/ cpc[c] = "p_check" /\ ~is_recording
    \/ cpc[c] = "s_check" /\ is_recording

RejectionOf(c) ==
    IF cpc[c] = "p_check" THEN Ev("stop", "not_recording") ELSE Ev("start", "already")

\* C5: a stop_recording that finds the flag clear returns "Not recording", a
\* start_recording that finds it set returns "Already recording", and from the
\* call's invocation to its return the flag and the stored path keep their
\* values and no thread is spawned.
C5_ProtocolErrorsMutateNothing ==
    [][\A c \in Callers :
         /\ (cpc[c] = "idle" /\ cpc'[c] \in {"p_check", "s_check"}) =>
                /\ is_recording' = is_recording
                /\ output_path' = output_path
                /\ Spawned' = Spawned
         /\ Rejected(c) =>
                /\ is_recording' = is_recording
                /\ output_path' = output_path
                /\ Spawned' = Spawned
                /\ cpc'[c] # cpc[c] =>
                       /\ cpc'[c] = "idle"
                       /\ log' = Append(log, RejectionOf(c))]_vars

\* a stop before any start was rejected, and later a start while recording
C5_BothRejectionsSeen ==
    /\ Len(log) >= 1
    /\ log[1] = Ev("stop", "not_recording")
    /\ \E i \in DOMAIN log : log[i] = Ev("start", "already")

\* ------------------------------------------------------------- C6
\* C6: whenever the flag is set (outside a running command) the output path is
\* set, and no stop_recording has returned "No recording path found".
C6_ActiveImpliesPath ==
    /\ (~HeldByCaller /\ is_recording) => output_path # NoPath
    /\ \A i \in DOMAIN log : log[i] # Ev("stop", "no_path")

\* ------------------------------------------------------------- C7
\* every start_recording so far spawned a session whose setup succeeded, every
\* recording was ended by a stop_recording, and every thread has returned
CyclesCompleted ==
    /\ Spawned # {}
    /\ \A s \in Spawned : spc[s] = "done"
    /\ \A c \in Callers : cpc[c] = "idle"
    /\ \A i \in DOMAIN log : log[i] \in {Ev("start", "ok"), Ev("stop", "ok")}
    /\ log[Len(log)] = Ev("stop", "ok")

\* C7: after completed start/stop cycles the file at the output path is a valid
\* container of the recording that created it: its header was patched by the
\* finalize of that recording, the declared sample count is the number of
\* samples in the file, and every sample in the file is of that recording.
C7_ContainerValid ==
    CyclesCompleted =>
        /\ file.hdrBy = file.creator
        /\ file.hdr = Len(file.data)
        /\ \A i \in DOMAIN file.data : file.data[i] = file.creator

\* ------------------------------------------------------------- C8
\* the start_recording that spawned s was followed by a successful stop_recording
StoppedOk(s) ==
    /\ born[s] > 0
    /\ \E i \in (born[s] + 1)..Len(log) : log[i] = Ev("stop", "ok")

PathErrorSeen == \E i \in DOMAIN log : log[i] = Ev("start", "path_error")

\* C8: under fair scheduling, every session whose start_recording was followed
\* by a successful stop_recording eventually leaves its polling loop and
\* finalizes its writer, whatever calls follow; a session whose setup failed
\* and a run in which some start_recording returned a path error are set aside.
C8_StopEventuallyFinalizes ==
    \A s \in Sessions :
        StoppedOk(s) ~> (spc[s] \in {"exit", "done", "failed"} \/ PathErrorSeen)

\* ------------------------------------------------------------- C9
\* the call right after the start_recording that spawned s is a successful
\* stop_recording, and the writer of s has written nothing
StoppedAtOnce(s) ==
    /\ born[s] > 0
    /\ Len(log) > born[s]
    /\ log[born[s] + 1] = Ev("stop", "ok")
    /\ cnt[s] = 0

StartAfter(s) ==
    \/ \E i \in (born[s] + 1)..Len(log) : log[i].op = "start"
    \/ \E c \in Callers : cpc[c] \in StartPcs

\* C9: under fair scheduling, a session stopped right after its start, before
\* any sample was written, finalizes its writer with zero samples and returns,
\* unless its setup fails or a further start_recording is issued.
C9_ImmediateStopTerminates ==
    \A s \in Sessions :
        StoppedAtOnce(s) ~>
            \/ spc[s] = "done" /\ wstate[s] = "taken" /\ cnt[s] = 0
            \/ spc[s] = "failed"
            \/ StartAfter(s)

\* a session stopped at once has finalized an empty recording and returned
C9_EmptyRecordingFinalized ==
    \E s \in Sessions :
        /\ StoppedAtOnce(s)
        /\ ~StartAfter(s)
        /\ spc[s] = "done" /\ wstate[s] = "taken" /\ cnt[s] = 0
        /\ file = [creator |-> s, hdr |-> 0, hdrBy |-> s, data |-> <<>>]

\* ------------------------------------------------------------- C10
\* s is the session of the recording that the stop_recording of c ends
Stops(c, s) ==
    /\ cpc[c] \in StopHoldingPcs
    /\ born[s] > 0
    /\ \A i \in (born[s] + 1)..Len(log) : log[i] = Ev("start", "already")

\* C10: stop_recording does not wait for the finalization: up to the point
\* where it returns the path, the session it stops has not left its polling
\* loop, so its writer has not been finalized.
C10_StopDoesNotWait ==
    \A c \in Callers : \A s \in Sessions :
        Stops(c, s) =>
            /\ spc[s] \notin {"finlock", "fin", "exit", "done"}
            /\ wstate[s] # "taken"

\* stop_recording has returned the path and the writer of the session it stopped
\* is still open
C10_ReturnedWhileWriterOpen ==
    \E s \in Sessions :
        /\ born[s] > 0
        /\ Len(log) > born[s]
        /\ log[Len(log)] = Ev("stop", "ok")
        /\ \A i \in (born[s] + 1)..(Len(log) - 1) : log[i] = Ev("start", "already")
        /\ \A c \in Callers : cpc[c] = "idle"
        /\ wstate[s] = "open"

\* ------------------------------------------------------------- C11
SamplesOf(f, s) == {i \in DOMAIN f.data : f.data[i] = s}

\* C11: the writer cell of a session goes from Some to None only in its
\* finalize step, under the writer lock, and stays None; the only other end of
\* a writer is its drop on a setup error.  A callback that takes the writer
\* lock afterwards appends nothing and returns.
C11_FinalizedOnce ==
    [][\A s \in Sessions :
         /\ (wstate[s] = "open" /\ wstate'[s] # "open") =>
                \/ /\ spc[s] = "fin" /\ spc'[s] = "exit"
                   /\ lockW[s] = SessT(s)
                   /\ wstate'[s] = "taken"
                \/ /\ spc'[s] = "failed"
                   /\ wstate'[s] = "dropped"
         /\ wstate[s] = "taken" =>
                /\ wstate'[s] = "taken"
                /\ cnt'[s] = cnt[s]
                /\ SamplesOf(file', s) \subseteq SamplesOf(file, s)
                /\ (file'.hdrBy = s) => (file'.hdr = file.hdr /\ file.hdrBy = s)
                /\ (cbpc[s] = "c_write" /\ cbpc'[s] # "c_write") => cbpc'[s] = "c_ret"]_vars

\* a callback holds the writer lock of a session whose writer was finalized
C11_CallbackAfterFinalize ==
    \E s \in Sessions :
        /\ wstate[s] = "taken"
        /\ cbpc[s] = "c_write"
        /\ lockW[s] = CbT(s)
        /\ cbrem[s] > 0

\* ------------------------------------------------------------- C12
\* C12: the stream of a session is torn down before its finalize step, so no
\* callback invocation of that session begins once the finalize step has the
\* writer lock or has run.
C12_NoCallbackAfterFinalize ==
    [][\A s \in Sessions :
         (spc[s] = "fin" \/ wstate[s] = "taken") =>
             ~(cbpc[s] = "idle" /\ cbpc'[s] # "idle")]_vars

\* ------------------------------------------------------------- C13
CbHoldingPcs == {"c_check", "c_wlock", "c_write", "c_ret"}

\* C13: a sample is appended to the writer of a session only by the callback of
\* that session, with the flag true before and after the append and the flag
\* lock held by that callback; the callback holds the flag lock from its test
\* of the flag until it returns, so the flag cannot change in between.
C13_NoAppendWhileIdle ==
    [][\A s \in Sessions :
         /\ cbpc[s] \in CbHoldingPcs => lockRec = CbT(s)
         /\ (cnt'[s] # cnt[s] \/ SamplesOf(file', s) # SamplesOf(file, s)) =>
                \/ /\ is_recording /\ is_recording'
                   /\ lockRec = CbT(s) /\ lockRec' = CbT(s)
                   /\ cbpc[s] = "c_write"
                   /\ cnt'[s] = cnt[s] + 1
                \/ /\ cnt'[s] = cnt[s]
                   /\ SamplesOf(file', s) \subseteq SamplesOf(file, s)
         /\ (cbpc[s] \in {"c_wlock", "c_write"} /\ cbpc'[s] \in CbHoldingPcs) =>
                is_recording /\ is_recording']_vars

\* a callback has appended a sample and still holds the flag lock
C13_AppendedUnderFlagLock ==
    \E s \in Sessions :
        /\ cnt[s] > 0
        /\ cbpc[s] = "c_ret"
        /\ lockRec = CbT(s)
        /\ is_recording

\* ------------------------------------------------------------- C14
Threads ==
    {CallerT(c) : c \in Callers} \cup {SessT(s) : s \in Sessions}
        \cup {CbT(s) : s \in Sessions}

\* the thread that holds what the next step of thread t needs (NoHolder when
\* the next step of t needs nothing that is held): lock() at lines 50 and 79 for
\* a caller, at lines 190 and 197 for a session, at line 122 for a callback;
\* the drop of `stream` at line 204 waits for a running callback
WaitsFor(t) ==
    IF t[1] = "caller"
    THEN IF cpc[t[2]] \in {"s_path", "p_path"} THEN lockPath ELSE NoHolder
    ELSE IF t[1] = "session"
    THEN CASE spc[t[2]] = "loop" -> lockRec
           [] spc[t[2]] = "finlock" -> lockW[t[2]]
           [] spc[t[2]] = "exit" ->
                  IF cbpc[t[2]] # "idle" THEN CbT(t[2]) ELSE NoHolder
           [] OTHER -> NoHolder
    ELSE IF cbpc[t[2]] = "c_wlock" THEN lockW[t[2]] ELSE NoHolder

RECURSIVE ReachesRunnable(_, _)
ReachesRunnable(t, n) ==
    IF t = NoHolder THEN TRUE
    ELSE IF n = 0 THEN FALSE
    ELSE ReachesRunnable(WaitsFor(t), n - 1)

\* C14: following "waits for the holder of" from any thread ends, without a
\* cycle, at a thread that waits for nothing; and a thread that is inside an
\* operation and waits for nothing has a step it can take.
C14_DeadlockFree ==
    /\ \A t \in Threads : ReachesRunnable(t, Cardinality(Threads))
    /\ \A c \in Callers :
         (cpc[c] # "idle" /\ WaitsFor(CallerT(c)) = NoHolder) =>
             ENABLED CallerContinue(c)
    /\ \A s \in Sessions :
         (spc[s] \notin {"none", "done", "failed"} /\ WaitsFor(SessT(s)) = NoHolder) =>
             ENABLED SessionStep(s)
    /\ \A s \in Sessions :
         (cbpc[s] # "idle" /\ WaitsFor(CbT(s)) = NoHolder) =>
             ENABLED CallbackContinue(s)

\* a chain of two waits: a session polls the flag held by a callback that waits
\* for the writer lock held by the finalize step of its own session
C14_ChainOfWaiters ==
    \E s, s2 \in Sessions :
        /\ spc[s2] = "loop"
        /\ lockRec = CbT(s)
        /\ cbpc[s] = "c_wlock"
        /\ lockW[s] = SessT(s)

\* ------------------------------------------------------------- C15
\* C15: no thread holds the flag lock or the path lock while it creates the
\* directory (line 44), sleeps (line 77) or writes samples (lines 124-127).
C15_ShortCriticalSections ==
    /\ \A c \in Callers :
         cpc[c] \in {"s_dir", "p_sleep"} =>
             (lockRec # CallerT(c) /\ lockPath # CallerT(c))
    /\ \A s \in Sessions :
         cbpc[s] = "c_write" => (lockRec # CbT(s) /\ lockPath # CbT(s))

\* ------------------------------------------------------------- C16
LocksHeld(t) ==
    (IF lockRec = t THEN 1 ELSE 0) + (IF lockPath = t THEN 1 ELSE 0)
        + Cardinality({s \in Sessions : lockW[s] = t})

\* C16: each thread holds at most one of the flag lock, the path lock and the
\* writer locks.
C16_LocksNeverNested == \A t \in Threads : LocksHeld(t) <= 1

\* ------------------------------------------------------------- C17
\* C17: every step that changes the flag or the stored path is the step of a
\* start_recording or stop_recording call that holds the flag lock (lines 37,
\* 50, 74); no step of a session, of a callback or of is_recording changes them.
C17_OnlyControllerMutates ==
    [][(is_recording' # is_recording \/ output_path' # output_path) =>
          /\ spc' = spc /\ cbpc' = cbpc
          /\ \E c \in Callers :
               /\ cpc[c] \in {"s_check", "s_path", "p_check"}
               /\ cpc'[c] # cpc[c]
               /\ lockRec = CallerT(c)]_vars

\* the setup of the only session started has failed, and the flag and the path
\* are as its start_recording left them
C17_SetupFailedFlagKept ==
    /\ Len(log) = 1
    /\ \E s \in Sessions : spc[s] = "failed"
    /\ \A c \in Callers : cpc[c] = "idle"
    /\ is_recording
    /\ output_path = RecordingWav

\* ------------------------------------------------------------- sample conversion
\* i16::MAX (line 125) and the midpoint of u16 (line 172)
I16Max == 32767
U16Mid == 32768
I16Min == -I16Max - 1
U16Max == 2 * U16Mid - 1

\* An f32 sample is the fraction raw / FDen.  For the inputs drawn here the
\* product with 32767.0 needs fewer than 24 bits, so the f32 multiplication of
\* line 125 is exact.
FDen == 2 ^ FBits

\* rounding toward zero of n / d, d > 0
TruncDiv(n, d) == IF n >= 0 THEN n \div d ELSE -((-n) \div d)

\* `as i16` of a float: the integer part, saturated at the ends of i16
SatI16(x) == IF x > I16Max THEN I16Max ELSE IF x < I16Min THEN I16Min ELSE x

\* `as i16` of an i32: the low 16 bits, read as two's complement
WrapI16(x) == ((x - I16Min) % (U16Max + 1)) + I16Min

\* `(sample * i16::MAX as f32) as i16` (line 125)
ConvF32(k) == SatI16(TruncDiv(k * I16Max, FDen))

\* `writer.write_sample(sample)` of the i16 callback (lines 148-150): no conversion
ConvI16(v) == v

\* the narrowing without the subtraction of the midpoint
ConvU16_NoRecentre(v) == WrapI16(v)

\* `(sample as i32 - 32768) as i16` (line 172)
ConvU16(v) == WrapI16(v - U16Mid)

\* one sample of one of the three formats reaches the converter: every u16,
\* every i16, and the f32 fractions raw / FDen between -2.0 and 2.0
InitConv ==
    /\ is_recording = FALSE
    /\ output_path = NoPath
    /\ lockRec = NoHolder
    /\ lockPath = NoHolder
    /\ lockW = [s \in Sessions |-> NoHolder]
    /\ cpc = [c \in Callers |-> "idle"]
    /\ spc = [s \in Sessions |-> "none"]
    /\ cbpc = [s \in Sessions |-> "idle"]
    /\ cbrem = [s \in Sessions |-> 0]
    /\ wstate = [s \in Sessions |-> "none"]
    /\ cnt = [s \in Sessions |-> 0]
    /\ file = NoFile
    /\ log = <<>>
    /\ born = [s \in Sessions |-> 0]
    /\ ncalls = 0
    /\ conv \in [fmt : {"F32"}, raw : (-2 * FDen)..(2 * FDen), out : {0}, done : {FALSE}]
                  \cup [fmt : {"I16"}, raw : I16Min..I16Max, out : {0}, done : {FALSE}]
                  \cup [fmt : {"U16"}, raw : 0..U16Max, out : {0}, done : {FALSE}]

ConvertF32 ==
    /\ conv.fmt = "F32" /\ ~conv.done
    /\ conv' = [conv EXCEPT !.out = ConvF32(conv.raw), !.done = TRUE]
    /\ UNCHANGED <<is_recording, output_path, lockRec, lockPath, lockW, cpc, spc,
                   cbpc, cbrem, wstate, cnt, file, log, born, ncalls>>

ConvertI16 ==
    /\ conv.fmt = "I16" /\ ~conv.done
    /\ conv' = [conv EXCEPT !.out = ConvI16(conv.raw), !.done = TRUE]
    /\ UNCHANGED <<is_recording, output_path, lockRec, lockPath, lockW, cpc, spc,
                   cbpc, cbrem, wstate, cnt, file, log, born, ncalls>>

ConvertU16 ==
    /\ conv.fmt = "U16" /\ ~conv.done
    /\ conv' = [conv EXCEPT !.out = ConvU16(conv.raw), !.done = TRUE]
    /\ UNCHANGED <<is_recording, output_path, lockRec, lockPath, lockW, cpc, spc,
                   cbpc, cbrem, wstate, cnt, file, log, born, ncalls>>

NextConv == ConvertF32 \/ ConvertI16 \/ ConvertU16

SpecConv == InitConv /\ [][NextConv]_vars

\* ------------------------------------------------------------- C18
Near(x, y) == x - y \in -1..1

\* C18: the zero level of each format (0.0, 0, 32768) converts to 0 and its
\* maximum (1.0, 32767, 65535) to a value within 1 of 32767; a u16 sample v
\* converts to v - 32768, which lies in i16 for every v; an i16 sample converts
\* to itself.
C18_SampleConversion ==
    conv.done =>
        /\ conv.fmt = "F32" =>
               /\ conv.raw = 0 => conv.out = 0
               /\ conv.raw = FDen => Near(conv.out, I16Max)
        /\ conv.fmt = "I16" =>
               /\ conv.out = conv.raw
               /\ conv.raw = 0 => conv.out = 0
               /\ conv.raw = I16Max => Near(conv.out, I16Max)
        /\ conv.fmt = "U16" =>
               /\ conv.out = conv.raw - U16Mid
               /\ conv.out \in I16Min..I16Max
               /\ conv.raw = U16Mid => conv.out = 0
               /\ conv.raw = U16Max => Near(conv.out, I16Max)

\* the largest u16 sample has been converted
C18_MaxU16Converted ==
    /\ conv.done
    /\ conv.fmt = "U16"
    /\ conv.raw = U16Max
    /\ conv.out = I16Max

MidBuffer(s) == cbpc[s] = "c_write" /\ cnt[s] % MaxBuf # 0

\* C20: while a callback is between the first and the last append of a buffer,
\* the writer stays in its cell, the flag does not change, the callback keeps
\* both locks, and the sample count moves only by that callback's next append;
\* so outside the loop of a callback every writer holds whole buffers only, and
\* so does every header a finalize has patched.
C20_BufferAtomic ==
    [][\A s \in Sessions :
         /\ (cnt[s] + cbrem[s]) % MaxBuf = 0
         /\ cbpc[s] # "c_write" => cnt[s] % MaxBuf = 0
         /\ file.hdr % MaxBuf = 0
         /\ MidBuffer(s) =>
                /\ wstate[s] = "open" /\ wstate'[s] = "open"
                /\ is_recording' = is_recording
                /\ lockW[s] = CbT(s) /\ lockW'[s] = CbT(s)
                /\ lockRec = CbT(s) /\ lockRec' = CbT(s)
                /\ spc'[s] \notin {"fin", "exit", "done"}
                /\ cnt'[s] # cnt[s] =>
                       (cnt'[s] = cnt[s] + 1 /\ cbrem'[s] = cbrem[s] - 1)]_vars

\* a callback is in the middle of its buffer while the session thread has left
\* its loop and waits for the writer lock
C20_FinalizeWaitsMidBuffer ==
    \E s \in Sessions :
        /\ MidBuffer(s)
        /\ cbrem[s] > 0
        /\ spc[s] = "finlock"
====
